---------------------------- MODULE Spec2Model ----------------------------
(***************************************************************************)
(* Wi-Fi to Bluetooth A2DP audio bridge (main/blu_moudle.c).               *)
(*                                                                         *)
(* The model has the three execution contexts of the program and the       *)
(* platform stacks they talk to:                                           *)
(*   - setup_task: the interactive setup state machine;                    *)
(*   - bt_app_gap_cb, bt_app_av_sm_hdlr, wifi_event_handler: the callbacks *)
(*     the Bluetooth and Wi-Fi stacks invoke;                              *)
(*   - tcp_server_task and a2d_data_cb: producer and consumer of the       *)
(*     FreeRTOS stream buffer s_audio_stream_buffer.                       *)
(*                                                                         *)
(* Conventions.                                                            *)
(*   - Hardware addresses are compared by the code for equality only       *)
(*     (memcmp), so the devices in range are numbered in the order in      *)
(*     which the inquiry first reports them: 1, 2, 3, ...                  *)
(*   - The relay never inspects an audio byte, so every byte received from *)
(*     the network is labelled with its position in the receive order      *)
(*     (1, 2, 3, ...); 0 is the silence byte written by memset and Garbage *)
(*     is the unknown previous content of the caller's buffer.             *)
(*   - Characters are one-character strings, a line is a sequence of them. *)
(***************************************************************************)
EXTENDS Integers, Sequences, FiniteSets, TLC

VARIABLES
    s_app_state,            \* app_state_t s_app_state
    setup_pc,               \* where setup_task stands inside its loop
    s_bt_devices,           \* s_bt_devices[]: the stored hardware addresses
    s_bt_device_count,      \* uint8_t s_bt_device_count
    s_wifi_aps,             \* s_wifi_aps[]: the stored access points
    s_wifi_ap_count,        \* uint16_t s_wifi_ap_count
    s_wifi_config,          \* wifi_config_t s_wifi_config (sta.ssid, sta.password)
    s_app_event_group,      \* the set of event bits that are set
    stdin,                  \* characters typed and not yet read
    typed,                  \* lines the operator submitted that no prompt has answered yet
    console,                \* the last message setup_task printed
    cmds,                   \* commands issued to the stacks, in order
    a2d_peer,               \* address given to esp_a2d_source_connect (0: none)
    sta_config,             \* configuration given to esp_wifi_set_config
    bt_stack,               \* the Bluetooth stack: inquiry and A2DP link
    wifi_stack,             \* the Wi-Fi stack: scan and station link
    tcp_pc,                 \* where tcp_server_task stands
    client_socket,          \* int client_socket (-1: none)
    rx_buffer,              \* the chunk recv() put into rx_buffer
    net,                    \* the network: peers, bytes received so far
    s_audio_stream_buffer,  \* the stream buffer
    cb,                     \* a2d_data_cb: the running call, and its last result
    audio                   \* what the A2DP stack has been handed so far

setupVars == <<s_app_state, setup_pc, s_bt_devices, s_bt_device_count, s_wifi_aps,
               s_wifi_ap_count, s_wifi_config, s_app_event_group, stdin, typed, console,
               cmds, a2d_peer, sta_config>>
stackVars == <<bt_stack, wifi_stack>>
relayVars == <<tcp_pc, client_socket, rx_buffer, net, s_audio_stream_buffer, cb, audio>>
vars == <<setupVars, stackVars, relayVars>>

(***************************************************************************)
(* Program constants                                                       *)
(***************************************************************************)
MAX_DISCOVERED_DEVICES == 20
INPUT_BUFFER_LEN == 64
PASSWORD_LEN == 64
TRIGGER_LEVEL == 1
RECEIVE_TIMEOUT_MS == 20
configTICK_RATE_HZ == 100
STREAM_BUFFER_SIZE == 16 * 1024
portMAX_DELAY == -1
INT_MAX == 2147483647

BT_DISCOVERY_DONE_BIT == "BIT0"
WIFI_SCAN_DONE_BIT == "BIT1"
BT_CONNECTED_BIT == "BIT2"
WIFI_CONNECTED_BIT == "BIT3"

AppStates ==
    <<"APP_STATE_INIT", "APP_STATE_BT_DISCOVERY", "APP_STATE_BT_DEVICE_SELECTION",
      "APP_STATE_BT_CONNECTING", "APP_STATE_WIFI_SCANNING",
      "APP_STATE_WIFI_NETWORK_SELECTION", "APP_STATE_WIFI_PASSWORD_INPUT",
      "APP_STATE_WIFI_CONNECTING", "APP_STATE_RUNNING">>

StateIndex(s) == CHOOSE i \in 1..Len(AppStates) : AppStates[i] = s

Min(a, b) == IF a < b THEN a ELSE b


(***************************************************************************)
(* Bounds of the model                                                     *)
(***************************************************************************)
MaxInRange == 2         \* sinks in radio range, besides the overflow case
MaxNetworks == 2        \* access points in range, besides the overflow case
MaxStdin == 1           \* characters pending when the operator types a line
MaxDisconnects == 1     \* WIFI_EVENT_STA_DISCONNECTED events the stack may raise
MaxLinkEvents == 2      \* A2DP connection state events the stack may raise
BufferBytes == 2        \* capacity of the stream buffer in the scaled runs
RxBytes == 2            \* size of rx_buffer in the scaled runs
MaxBytes == 4           \* bytes the peers send in the scaled runs
MaxPeers == 2           \* connections the peers open
MaxLen == 2             \* largest length the A2DP stack asks for
MaxClock == 3           \* cap of the tick count of a wait that has no timeout

(***************************************************************************)
(* Operator input: get_user_input and atoi                                 *)
(***************************************************************************)
LF == "\n"
CR == "\r"
Digits == {"0", "1", "2", "3", "4", "5", "6", "7", "8", "9"}

DigitVal(c) ==
    CASE c = "0" -> 0 [] c = "1" -> 1 [] c = "2" -> 2 [] c = "3" -> 3 [] c = "4" -> 4
      [] c = "5" -> 5 [] c = "6" -> 6 [] c = "7" -> 7 [] c = "8" -> 8 [] c = "9" -> 9

\* The loop of get_user_input over the pending characters: `done` is FALSE when
\* fgetc would have to wait for more characters.
RECURSIVE ReadChars(_, _, _)
ReadChars(stream, buffer, len) ==
    IF Len(buffer) >= len - 1
        THEN [buffer |-> buffer, rest |-> stream, done |-> TRUE]
    ELSE IF stream = <<>>
        THEN [buffer |-> buffer, rest |-> stream, done |-> FALSE]
    ELSE IF Head(stream) = LF \/ Head(stream) = CR
        THEN [buffer |-> buffer, rest |-> Tail(stream), done |-> TRUE]
    ELSE ReadChars(Tail(stream), Append(buffer, Head(stream)), len)

get_user_input(stream, len) == ReadChars(stream, <<>>, len)

RECURSIVE SkipSpace(_)
SkipSpace(s) == IF s # <<>> /\ Head(s) = " " THEN SkipSpace(Tail(s)) ELSE s

\* strtol's digit loop: the value saturates (newlib returns LONG_MAX, a 32-bit long).
RECURSIVE DigitsValue(_, _)
DigitsValue(s, acc) ==
    IF s = <<>> \/ Head(s) \notin Digits THEN acc
    ELSE DigitsValue(Tail(s), IF acc > (INT_MAX - DigitVal(Head(s))) \div 10
                                  THEN INT_MAX
                                  ELSE acc * 10 + DigitVal(Head(s)))

atoi(s) ==
    LET t == SkipSpace(s)
        neg == t # <<>> /\ Head(t) = "-"
        u == IF t # <<>> /\ Head(t) \in {"-", "+"} THEN Tail(t) ELSE t
        v == DigitsValue(u, 0)
    IN  IF neg THEN -v ELSE v


(***************************************************************************)
(* What the operator may type: a line and its terminator                   *)
(***************************************************************************)
Lines ==
    { <<>>, <<"0">>, <<"1">>, <<"2">>, <<"2", "0">>, <<"2", "1">>, <<"x">>,
      <<"1", "x">>, <<"-", "1">>,
      <<"4", "2", "9", "4", "9", "6", "7", "2", "9", "7">> }
Terminators == { <<LF>>, <<CR>>, <<CR, LF>> }

(***************************************************************************)
(* The registries as the platform lays them out                            *)
(***************************************************************************)
NoAddress == 0
EmptyAp == [ssid |-> "", rssi |-> 0]
Ssid(i) == CASE i = 1 -> "Home" [] i = 2 -> "Office" [] OTHER -> "Guest"
Rssi(i) == CASE i = 1 -> -40 [] i = 2 -> -70 [] OTHER -> -90
ScanRecord(i) == [ssid |-> Ssid(i), rssi |-> Rssi(i)]
EmptyConfig == [ssid |-> "", password |-> <<>>]
Garbage == -1

(***************************************************************************)
(* app_main: the state when setup_task is created                          *)
(***************************************************************************)
xStreamBufferCreate(size, trigger) == [size |-> size, trigger |-> trigger, bytes |-> <<>>]

InitWith(env) ==
    /\ s_app_state = "APP_STATE_INIT"
    /\ setup_pc = "switch"
    /\ s_bt_devices = [i \in 1..MAX_DISCOVERED_DEVICES |-> NoAddress]
    /\ s_bt_device_count = 0
    /\ s_wifi_aps = [i \in 1..MAX_DISCOVERED_DEVICES |-> EmptyAp]
    /\ s_wifi_ap_count = 0
    /\ s_wifi_config = EmptyConfig
    /\ s_app_event_group = {}
    /\ stdin = <<>>
    /\ typed = <<>>
    /\ console = "none"
    /\ cmds = <<>>
    /\ a2d_peer = NoAddress
    /\ sta_config = EmptyConfig
    /\ bt_stack \in [in_range : env.in_range, inquiry : {"idle"}, reported : {0},
                     link : {"idle"}, link_events : {env.link_events}]
    /\ wifi_stack \in [networks : env.networks, scan : {"idle"}, sta : {"idle"},
                       disconnects : {env.disconnects}, got_ip : {FALSE}]
    /\ tcp_pc = "none"
    /\ client_socket = -1
    /\ rx_buffer = <<>>
    /\ net = [supply |-> env.supply, received |-> 0, pushed |-> 0, runs |-> <<>>,
              peers |-> 0, backlog |-> 0, open |-> 0, last_recv |-> 1,
              spawned |-> 0, listening |-> FALSE]
    /\ s_audio_stream_buffer = xStreamBufferCreate(env.size, TRIGGER_LEVEL)
    /\ cb = [pc |-> "idle", len |-> 0, valid |-> TRUE, waited |-> 0, data |-> <<>>,
             ret |-> 0, bytes_read |-> 0]
    /\ audio = [handed |-> 0, reads |-> <<>>, level |-> 0, log |-> env.log]


(***************************************************************************)
(* Event group                                                             *)
(***************************************************************************)
xEventGroupSetBits_WithConnected(group, bit) == group \cup {bit, WIFI_CONNECTED_BIT}
xEventGroupSetBits(group, bit) == group \cup {bit}
xEventGroupClearBits(group, bit) == group \ {bit}
\* xEventGroupWaitBits(group, bit, clearOnExit, pdFALSE, ticks): the wait is over
\* when the bit is set, or when `ticks` have elapsed (never, for portMAX_DELAY).
WaitBitsReturns_NoWait(group, bit, ticks) == TRUE
WaitBitsReturns(group, bit, ticks) == bit \in group
WaitBitsExit_KeepBits(group, bit, clearOnExit) == group
WaitBitsExit(group, bit, clearOnExit) == IF clearOnExit THEN group \ {bit} ELSE group

(***************************************************************************)
(* bt_app_gap_cb                                                           *)
(***************************************************************************)
DeviceFound_SkipLast(bda) == \E i \in 1..(s_bt_device_count - 1) : s_bt_devices[i] = bda
DeviceFound(bda) == \E i \in 1..s_bt_device_count : s_bt_devices[i] = bda
RegistryHasRoom == s_bt_device_count < MAX_DISCOVERED_DEVICES

\* ESP_BT_GAP_DISC_RES_EVT
bt_app_gap_cb_DISC_RES(bda) ==
    IF ~DeviceFound(bda) /\ RegistryHasRoom
        THEN /\ s_bt_devices' = [s_bt_devices EXCEPT ![s_bt_device_count + 1] = bda]
             /\ s_bt_device_count' = s_bt_device_count + 1
        ELSE UNCHANGED <<s_bt_devices, s_bt_device_count>>

\* The inquiry reports a device: one already reported, or the next new one.
BtDiscoveryResult ==
    /\ bt_stack.inquiry = "active"
    /\ \E bda \in 1..Min(bt_stack.reported + 1, bt_stack.in_range) :
          /\ bt_app_gap_cb_DISC_RES(bda)
          /\ bt_stack' = [bt_stack EXCEPT
                !.reported = IF bda > @ THEN bda ELSE @]
    /\ UNCHANGED <<s_app_state, setup_pc, s_wifi_aps, s_wifi_ap_count, s_wifi_config,
                   s_app_event_group, stdin, typed, console, cmds, a2d_peer, sta_config,
                   wifi_stack, relayVars>>

\* ESP_BT_GAP_DISC_STATE_CHANGED_EVT, ESP_BT_GAP_DISCOVERY_STARTED
BtDiscoveryStarted ==
    /\ bt_stack.inquiry = "requested"
    /\ bt_stack' = [bt_stack EXCEPT !.inquiry = "active"]
    /\ UNCHANGED <<setupVars, wifi_stack, relayVars>>

\* ESP_BT_GAP_DISC_STATE_CHANGED_EVT, ESP_BT_GAP_DISCOVERY_STOPPED
BtDiscoveryStopped ==
    /\ bt_stack.inquiry = "active"
    /\ bt_stack' = [bt_stack EXCEPT !.inquiry = "stopped"]
    /\ s_app_event_group' = xEventGroupSetBits(s_app_event_group, BT_DISCOVERY_DONE_BIT)
    /\ UNCHANGED <<s_app_state, setup_pc, s_bt_devices, s_bt_device_count, s_wifi_aps,
                   s_wifi_ap_count, s_wifi_config, stdin, typed, console, cmds, a2d_peer,
                   sta_config, wifi_stack, relayVars>>

(***************************************************************************)
(* bt_app_av_sm_hdlr                                                       *)
(***************************************************************************)
\* ESP_A2D_CONNECTION_STATE_EVT, ESP_A2D_CONNECTION_STATE_CONNECTED
A2dConnected ==
    /\ bt_stack.link \in {"connecting", "disconnected"}
    /\ bt_stack.link_events > 0
    /\ bt_stack' = [bt_stack EXCEPT !.link = "connected", !.link_events = @ - 1]
    /\ s_app_event_group' = xEventGroupSetBits(s_app_event_group, BT_CONNECTED_BIT)
    /\ cmds' = Append(cmds, "esp_a2d_media_ctrl")
    /\ UNCHANGED <<s_app_state, setup_pc, s_bt_devices, s_bt_device_count, s_wifi_aps,
                   s_wifi_ap_count, s_wifi_config, stdin, typed, console, a2d_peer,
                   sta_config, wifi_stack, relayVars>>

\* ESP_A2D_CONNECTION_STATE_EVT, ESP_A2D_CONNECTION_STATE_DISCONNECTED
A2dDisconnected ==
    /\ bt_stack.link \in {"connecting", "connected"}
    /\ bt_stack.link_events > 0
    /\ bt_stack' = [bt_stack EXCEPT !.link = "disconnected", !.link_events = @ - 1]
    /\ s_app_event_group' = xEventGroupClearBits(s_app_event_group, BT_CONNECTED_BIT)
    /\ UNCHANGED <<s_app_state, setup_pc, s_bt_devices, s_bt_device_count, s_wifi_aps,
                   s_wifi_ap_count, s_wifi_config, stdin, typed, console, cmds, a2d_peer,
                   sta_config, wifi_stack, relayVars>>

(***************************************************************************)
(* wifi_event_handler                                                      *)
(***************************************************************************)
\* The blocking scan finishes; WIFI_EVENT_SCAN_DONE is posted to the event loop.
WifiScanFinished ==
    /\ wifi_stack.scan = "scanning"
    /\ wifi_stack' = [wifi_stack EXCEPT !.scan = "done"]
    /\ UNCHANGED <<setupVars, bt_stack, relayVars>>

\* WIFI_EVENT_SCAN_DONE
WifiScanDone ==
    /\ wifi_stack.scan = "done"
    /\ wifi_stack' = [wifi_stack EXCEPT !.scan = "notified"]
    /\ s_app_event_group' = xEventGroupSetBits(s_app_event_group, WIFI_SCAN_DONE_BIT)
    /\ UNCHANGED <<s_app_state, setup_pc, s_bt_devices, s_bt_device_count, s_wifi_aps,
                   s_wifi_ap_count, s_wifi_config, stdin, typed, console, cmds, a2d_peer,
                   sta_config, bt_stack, relayVars>>

\* IP_EVENT_STA_GOT_IP
WifiGotIp ==
    /\ wifi_stack.sta = "connecting"
    /\ wifi_stack' = [wifi_stack EXCEPT !.sta = "connected", !.got_ip = TRUE]
    /\ s_app_event_group' = xEventGroupSetBits(s_app_event_group, WIFI_CONNECTED_BIT)
    /\ UNCHANGED <<s_app_state, setup_pc, s_bt_devices, s_bt_device_count, s_wifi_aps,
                   s_wifi_ap_count, s_wifi_config, stdin, typed, console, cmds, a2d_peer,
                   sta_config, bt_stack, relayVars>>

WifiDisconnected_NoReconnect ==
    /\ wifi_stack.sta \in {"connecting", "connected"}
    /\ wifi_stack.disconnects > 0
    /\ wifi_stack' = [wifi_stack EXCEPT !.sta = "idle", !.disconnects = @ - 1]
    /\ UNCHANGED <<setupVars, bt_stack, relayVars>>

\* WIFI_EVENT_STA_DISCONNECTED: the handler calls esp_wifi_connect again.
WifiDisconnected ==
    /\ wifi_stack.sta \in {"connecting", "connected"}
    /\ wifi_stack.disconnects > 0
    /\ wifi_stack' = [wifi_stack EXCEPT !.sta = "connecting", !.disconnects = @ - 1]
    /\ cmds' = Append(cmds, "esp_wifi_connect")
    /\ UNCHANGED <<s_app_state, setup_pc, s_bt_devices, s_bt_device_count, s_wifi_aps,
                   s_wifi_ap_count, s_wifi_config, s_app_event_group, stdin, typed, console,
                   a2d_peer, sta_config, bt_stack, relayVars>>

(***************************************************************************)
(* The operator                                                            *)
(***************************************************************************)
\* The operator answers a prompt with a line; at most MaxStdin characters of an
\* earlier answer are still pending.
OperatorTypes(lines, terminators) ==
    /\ setup_pc = "input"
    /\ Len(stdin) <= MaxStdin
    /\ \E line \in lines, term \in terminators :
          /\ stdin' = stdin \o line \o term
          /\ typed' = Append(typed, line)
    /\ UNCHANGED <<s_app_state, setup_pc, s_bt_devices, s_bt_device_count, s_wifi_aps,
                   s_wifi_ap_count, s_wifi_config, s_app_event_group, console, cmds,
                   a2d_peer, sta_config, stackVars, relayVars>>


(***************************************************************************)
(* setup_task: one action per path through one iteration of its loop.      *)
(* setup_pc is "switch" at the head of the loop, "wait" inside             *)
(* xEventGroupWaitBits, "input" inside get_user_input, "scan" inside the   *)
(* blocking esp_wifi_scan_start, "delay" in the vTaskDelay that ends the   *)
(* iteration and "deleted" after vTaskDelete.                              *)
(***************************************************************************)
\* A prompt that returns answers the oldest line submitted, if there is one.
Answered(lines) == IF lines = <<>> THEN lines ELSE Tail(lines)
At(state, pc) == s_app_state = state /\ setup_pc = pc
ValidChoice_OnePast(choice, count) == choice > 0 /\ choice <= count + 1
ValidChoice(choice, count) == choice > 0 /\ choice <= count

\* case APP_STATE_INIT
SetupInit ==
    /\ At("APP_STATE_INIT", "switch")
    /\ console' = "Step 1: Bluetooth Setup"
    /\ s_bt_device_count' = 0
    /\ cmds' = Append(cmds, "esp_bt_gap_start_discovery")
    /\ bt_stack' = [bt_stack EXCEPT !.inquiry = "requested", !.reported = 0]
    /\ s_app_state' = "APP_STATE_BT_DISCOVERY"
    /\ setup_pc' = "delay"
    /\ UNCHANGED <<s_bt_devices, s_wifi_aps, s_wifi_ap_count, s_wifi_config,
                   s_app_event_group, stdin, typed, a2d_peer, sta_config, wifi_stack, relayVars>>

\* The printf that opens a waiting state, up to the call that blocks.
SetupEnterWait ==
    /\ setup_pc = "switch"
    /\ \/ s_app_state = "APP_STATE_BT_DISCOVERY" /\ console' = "Scanning for Bluetooth devices..."
       \/ s_app_state = "APP_STATE_BT_CONNECTING" /\ console' = "Connecting to Bluetooth device..."
       \/ s_app_state = "APP_STATE_WIFI_SCANNING" /\ console' = "Scanning for Wi-Fi networks..."
       \/ s_app_state = "APP_STATE_WIFI_CONNECTING" /\ console' = "Connecting to Wi-Fi..."
    /\ setup_pc' = "wait"
    /\ UNCHANGED <<s_app_state, s_bt_devices, s_bt_device_count, s_wifi_aps,
                   s_wifi_ap_count, s_wifi_config, s_app_event_group, stdin, typed, cmds,
                   a2d_peer, sta_config, stackVars, relayVars>>

\* The printf that opens an input state, up to the first fgetc.
SetupPrompt ==
    /\ setup_pc = "switch"
    /\ \/ s_app_state = "APP_STATE_BT_DEVICE_SELECTION"
            /\ console' = "Enter the number of the device to connect to: "
       \/ s_app_state = "APP_STATE_WIFI_NETWORK_SELECTION"
            /\ console' = "Enter the number of the Wi-Fi network: "
       \/ s_app_state = "APP_STATE_WIFI_PASSWORD_INPUT"
            /\ console' = "Enter password for "
    /\ setup_pc' = "input"
    /\ UNCHANGED <<s_app_state, s_bt_devices, s_bt_device_count, s_wifi_aps,
                   s_wifi_ap_count, s_wifi_config, s_app_event_group, stdin, typed, cmds,
                   a2d_peer, sta_config, stackVars, relayVars>>

\* case APP_STATE_BT_DISCOVERY, after the wait
SetupBtDiscovery ==
    /\ At("APP_STATE_BT_DISCOVERY", "wait")
    /\ WaitBitsReturns(s_app_event_group, BT_DISCOVERY_DONE_BIT, portMAX_DELAY)
    /\ s_app_event_group' = WaitBitsExit(s_app_event_group, BT_DISCOVERY_DONE_BIT, TRUE)
    /\ console' = "Scan complete. Found devices"
    /\ s_app_state' = "APP_STATE_BT_DEVICE_SELECTION"
    /\ setup_pc' = "delay"
    /\ UNCHANGED <<s_bt_devices, s_bt_device_count, s_wifi_aps, s_wifi_ap_count,
                   s_wifi_config, stdin, typed, cmds, a2d_peer, sta_config, stackVars, relayVars>>

\* case APP_STATE_BT_DEVICE_SELECTION, after the prompt
SetupBtDeviceSelection ==
    /\ At("APP_STATE_BT_DEVICE_SELECTION", "input")
    /\ LET in == get_user_input(stdin, INPUT_BUFFER_LEN)
           choice == atoi(in.buffer)
       IN  /\ in.done
           /\ stdin' = in.rest
           /\ typed' = Answered(typed)
           /\ IF ValidChoice(choice, s_bt_device_count)
                THEN /\ a2d_peer' = s_bt_devices[choice]
                     /\ cmds' = Append(cmds, "esp_a2d_source_connect")
                     /\ bt_stack' = [bt_stack EXCEPT !.link = "connecting"]
                     /\ s_app_state' = "APP_STATE_BT_CONNECTING"
                     /\ UNCHANGED console
                ELSE /\ console' = "Invalid choice. Please try again."
                     /\ UNCHANGED <<a2d_peer, cmds, bt_stack, s_app_state>>
    /\ setup_pc' = "delay"
    /\ UNCHANGED <<s_bt_devices, s_bt_device_count, s_wifi_aps, s_wifi_ap_count,
                   s_wifi_config, s_app_event_group, sta_config, wifi_stack, relayVars>>

\* case APP_STATE_BT_CONNECTING, after the wait, up to the blocking scan call
SetupBtConnecting ==
    /\ At("APP_STATE_BT_CONNECTING", "wait")
    /\ WaitBitsReturns(s_app_event_group, BT_CONNECTED_BIT, portMAX_DELAY)
    /\ s_app_event_group' = WaitBitsExit(s_app_event_group, BT_CONNECTED_BIT, FALSE)
    /\ console' = "Step 2: Wi-Fi Setup"
    /\ cmds' = Append(cmds, "esp_wifi_scan_start")
    /\ wifi_stack' = [wifi_stack EXCEPT !.scan = "scanning"]
    /\ setup_pc' = "scan"
    /\ UNCHANGED <<s_app_state, s_bt_devices, s_bt_device_count, s_wifi_aps,
                   s_wifi_ap_count, s_wifi_config, stdin, typed, a2d_peer, sta_config,
                   bt_stack, relayVars>>

\* case APP_STATE_BT_CONNECTING, when esp_wifi_scan_start(NULL, true) returns
SetupScanStarted ==
    /\ At("APP_STATE_BT_CONNECTING", "scan")
    /\ wifi_stack.scan \in {"done", "notified"}
    /\ s_app_state' = "APP_STATE_WIFI_SCANNING"
    /\ setup_pc' = "delay"
    /\ UNCHANGED <<s_bt_devices, s_bt_device_count, s_wifi_aps, s_wifi_ap_count,
                   s_wifi_config, s_app_event_group, stdin, typed, console, cmds, a2d_peer,
                   sta_config, stackVars, relayVars>>

\* esp_wifi_scan_get_ap_records(&number, records): at most `number` records.
ApRecords(number, found) ==
    [i \in 1..MAX_DISCOVERED_DEVICES |->
        IF i <= Min(number, found) THEN ScanRecord(i) ELSE s_wifi_aps[i]]

\* case APP_STATE_WIFI_SCANNING, after the wait
SetupWifiScanning ==
    /\ At("APP_STATE_WIFI_SCANNING", "wait")
    /\ WaitBitsReturns(s_app_event_group, WIFI_SCAN_DONE_BIT, portMAX_DELAY)
    /\ s_app_event_group' = WaitBitsExit(s_app_event_group, WIFI_SCAN_DONE_BIT, TRUE)
    /\ s_wifi_ap_count' = Min(MAX_DISCOVERED_DEVICES, wifi_stack.networks)
    /\ s_wifi_aps' = ApRecords(MAX_DISCOVERED_DEVICES, wifi_stack.networks)
    /\ console' = "Scan complete. Found networks"
    /\ s_app_state' = "APP_STATE_WIFI_NETWORK_SELECTION"
    /\ setup_pc' = "delay"
    /\ UNCHANGED <<s_bt_devices, s_bt_device_count, s_wifi_config, stdin, typed, cmds,
                   a2d_peer, sta_config, stackVars, relayVars>>

\* case APP_STATE_WIFI_NETWORK_SELECTION, after the prompt
SetupWifiNetworkSelection ==
    /\ At("APP_STATE_WIFI_NETWORK_SELECTION", "input")
    /\ LET in == get_user_input(stdin, INPUT_BUFFER_LEN)
           choice == atoi(in.buffer)
       IN  /\ in.done
           /\ stdin' = in.rest
           /\ typed' = Answered(typed)
           /\ IF ValidChoice(choice, s_wifi_ap_count)
                THEN /\ s_wifi_config' = [ssid |-> s_wifi_aps[choice].ssid,
                                          password |-> <<>>]
                     /\ s_app_state' = "APP_STATE_WIFI_PASSWORD_INPUT"
                     /\ UNCHANGED console
                ELSE /\ console' = "Invalid choice. Please try again."
                     /\ UNCHANGED <<s_wifi_config, s_app_state>>
    /\ setup_pc' = "delay"
    /\ UNCHANGED <<s_bt_devices, s_bt_device_count, s_wifi_aps, s_wifi_ap_count,
                   s_app_event_group, cmds, a2d_peer, sta_config, stackVars, relayVars>>

SetupWifiPasswordInput_NoSetConfig ==
    /\ At("APP_STATE_WIFI_PASSWORD_INPUT", "input")
    /\ LET in == get_user_input(stdin, PASSWORD_LEN)
       IN  /\ in.done
           /\ stdin' = in.rest
           /\ typed' = Answered(typed)
           /\ s_wifi_config' = [s_wifi_config EXCEPT !.password = in.buffer]
    /\ cmds' = cmds \o <<"esp_wifi_connect">>
    /\ wifi_stack' = [wifi_stack EXCEPT !.sta = "connecting"]
    /\ s_app_state' = "APP_STATE_WIFI_CONNECTING"
    /\ setup_pc' = "delay"
    /\ UNCHANGED <<s_bt_devices, s_bt_device_count, s_wifi_aps, s_wifi_ap_count,
                   s_app_event_group, console, a2d_peer, sta_config, bt_stack, relayVars>>

\* case APP_STATE_WIFI_PASSWORD_INPUT, after the prompt
SetupWifiPasswordInput ==
    /\ At("APP_STATE_WIFI_PASSWORD_INPUT", "input")
    /\ LET in == get_user_input(stdin, PASSWORD_LEN)
       IN  /\ in.done
           /\ stdin' = in.rest
           /\ typed' = Answered(typed)
           /\ s_wifi_config' = [s_wifi_config EXCEPT !.password = in.buffer]
    /\ sta_config' = s_wifi_config'
    /\ cmds' = cmds \o <<"esp_wifi_set_config", "esp_wifi_connect">>
    /\ wifi_stack' = [wifi_stack EXCEPT !.sta = "connecting"]
    /\ s_app_state' = "APP_STATE_WIFI_CONNECTING"
    /\ setup_pc' = "delay"
    /\ UNCHANGED <<s_bt_devices, s_bt_device_count, s_wifi_aps, s_wifi_ap_count,
                   s_app_event_group, console, a2d_peer, bt_stack, relayVars>>

\* case APP_STATE_WIFI_CONNECTING, after the wait
SetupWifiConnecting ==
    /\ At("APP_STATE_WIFI_CONNECTING", "wait")
    /\ WaitBitsReturns(s_app_event_group, WIFI_CONNECTED_BIT, portMAX_DELAY)
    /\ s_app_event_group' = WaitBitsExit(s_app_event_group, WIFI_CONNECTED_BIT, FALSE)
    /\ console' = "Setup Complete!"
    /\ tcp_pc' = "created"
    /\ net' = [net EXCEPT !.spawned = @ + 1]
    /\ s_app_state' = "APP_STATE_RUNNING"
    /\ setup_pc' = "delay"
    /\ UNCHANGED <<s_bt_devices, s_bt_device_count, s_wifi_aps, s_wifi_ap_count,
                   s_wifi_config, stdin, typed, cmds, a2d_peer, sta_config, stackVars,
                   client_socket, rx_buffer, s_audio_stream_buffer, cb, audio>>

SetupRunning_NoDelete ==
    /\ At("APP_STATE_RUNNING", "switch")
    /\ setup_pc' = "delay"
    /\ UNCHANGED <<s_app_state, s_bt_devices, s_bt_device_count, s_wifi_aps,
                   s_wifi_ap_count, s_wifi_config, s_app_event_group, stdin, typed, console,
                   cmds, a2d_peer, sta_config, stackVars, relayVars>>

\* case APP_STATE_RUNNING
SetupRunning ==
    /\ At("APP_STATE_RUNNING", "switch")
    /\ setup_pc' = "deleted"
    /\ UNCHANGED <<s_app_state, s_bt_devices, s_bt_device_count, s_wifi_aps,
                   s_wifi_ap_count, s_wifi_config, s_app_event_group, stdin, typed, console,
                   cmds, a2d_peer, sta_config, stackVars, relayVars>>

\* vTaskDelay(pdMS_TO_TICKS(100)) at the end of the iteration
SetupDelay ==
    /\ setup_pc = "delay"
    /\ setup_pc' = "switch"
    /\ UNCHANGED <<s_app_state, s_bt_devices, s_bt_device_count, s_wifi_aps,
                   s_wifi_ap_count, s_wifi_config, s_app_event_group, stdin, typed, console,
                   cmds, a2d_peer, sta_config, stackVars, relayVars>>

setup_task ==
    \/ SetupInit \/ SetupEnterWait \/ SetupPrompt \/ SetupBtDiscovery
    \/ SetupBtDeviceSelection \/ SetupBtConnecting \/ SetupScanStarted
    \/ SetupWifiScanning \/ SetupWifiNetworkSelection \/ SetupWifiPasswordInput
    \/ SetupWifiConnecting \/ SetupRunning \/ SetupDelay


(***************************************************************************)
(* The stream buffer (FreeRTOS stream_buffer.c, one writer and one reader) *)
(***************************************************************************)
pdMS_TO_TICKS(ms) == (ms * configTICK_RATE_HZ) \div 1000

BytesAvailable(sb) == Len(sb.bytes)
SpacesAvailable(sb) == sb.size - Len(sb.bytes)

\* xStreamBufferSend(sb, data, len, ticks) leaves its wait when the whole of the
\* data fits, or when `ticks` have elapsed (never, for portMAX_DELAY) ...
SendReturns(sb, len, waited, ticks) ==
    \/ SpacesAvailable(sb) >= len
    \/ ticks # portMAX_DELAY /\ waited >= ticks
\* ... and then writes as much of the data as fits.
xStreamBufferSend(sb, data) ==
    [sb EXCEPT !.bytes = @ \o SubSeq(data, 1, Min(Len(data), SpacesAvailable(sb)))]

\* xStreamBufferReceive(sb, data, len, ticks) waits only on an empty buffer, and
\* leaves its wait when the writer has brought the content to the trigger level
\* or when `ticks` have elapsed (never, for portMAX_DELAY) ...
ReceiveWaits(sb) == BytesAvailable(sb) = 0
ReceiveReturns(sb, waited, ticks) ==
    \/ BytesAvailable(sb) >= sb.trigger
    \/ ticks # portMAX_DELAY /\ waited >= ticks
\* ... and then takes the oldest bytes, at most len of them.
ReceivedBytes_Newest(sb, len) ==
    SubSeq(sb.bytes, BytesAvailable(sb) - Min(len, BytesAvailable(sb)) + 1, BytesAvailable(sb))
ReceivedBytes(sb, len) == SubSeq(sb.bytes, 1, Min(len, BytesAvailable(sb)))
xStreamBufferReceive_Peek(sb, len) == sb
xStreamBufferReceive(sb, len) ==
    [sb EXCEPT !.bytes = SubSeq(@, Min(len, BytesAvailable(sb)) + 1, Len(@))]

(***************************************************************************)
(* a2d_data_cb                                                             *)
(***************************************************************************)
ReceiveTicks_Forever == portMAX_DELAY
ReceiveTicks == pdMS_TO_TICKS(RECEIVE_TIMEOUT_MS)
ReceiveLength_OneShort(len) == IF len > 0 THEN len - 1 ELSE len
ReceiveLength(len) == len

\* memcpy of the received bytes over the head of the caller's buffer
Store(data, bytes) == bytes \o SubSeq(data, Len(bytes) + 1, Len(data))
\* memset(data + from, 0, count)
memset(data, from, count) ==
    [i \in 1..Len(data) |-> IF i > from /\ i <= from + count THEN 0 ELSE data[i]]

SilenceFill_None(data, bytes_read, len) == data
\* if (bytes_read < len) memset(data + bytes_read, 0, len - bytes_read);
SilenceFill(data, bytes_read, len) ==
    IF bytes_read < len THEN memset(data, bytes_read, len - bytes_read) ELSE data

\* The ghost record of the pulls made since the last push.
LogRead(a, len, n, waited) ==
    [a EXCEPT !.handed = @ + n,
              !.reads = IF Len(@) < a.log
                          THEN Append(@, [len |-> len, n |-> n, waited |-> waited])
                          ELSE @]

\* From xStreamBufferReceive's return to `return len`.
CbFinish(len, data, waited) ==
    LET want == ReceiveLength(len)
        bytes == ReceivedBytes(s_audio_stream_buffer, want)
        bytes_read == Len(bytes)
    IN  /\ s_audio_stream_buffer' = xStreamBufferReceive(s_audio_stream_buffer, want)
        /\ cb' = [cb EXCEPT !.pc = "idle", !.len = len, !.valid = TRUE,
                            !.data = SilenceFill(Store(data, bytes), bytes_read, len),
                            !.bytes_read = bytes_read,
                            !.waited = waited,
                            !.ret = len]
        /\ audio' = LogRead(audio, len, bytes_read, waited)

\* The A2DP stack asks for `len` bytes; `valid` is FALSE for data == NULL.
A2dDataCbCall(lens) ==
    /\ cb.pc = "idle"
    /\ bt_stack.link = "connected"
    /\ \E len \in lens, valid \in BOOLEAN :
          LET data == [i \in 1..len |-> Garbage]
          IN  IF len < 0 \/ ~valid
                THEN /\ cb' = [cb EXCEPT !.len = len, !.valid = valid, !.data = <<>>,
                                         !.bytes_read = 0, !.waited = 0, !.ret = 0]
                     /\ UNCHANGED <<s_audio_stream_buffer, audio>>
              ELSE IF ReceiveWaits(s_audio_stream_buffer)
                THEN /\ cb' = [cb EXCEPT !.pc = "waiting", !.len = len, !.valid = TRUE,
                                         !.data = data, !.bytes_read = 0,
                                         !.waited = 0, !.ret = 0]
                     /\ UNCHANGED <<s_audio_stream_buffer, audio>>
              ELSE CbFinish(len, data, 0)
    /\ UNCHANGED <<setupVars, stackVars, tcp_pc, client_socket, rx_buffer, net>>

\* A tick passes while xStreamBufferReceive waits.
Tick ==
    /\ cb.pc = "waiting"
    /\ ~ReceiveReturns(s_audio_stream_buffer, cb.waited, ReceiveTicks)
    /\ cb.waited < MaxClock
    /\ cb' = [cb EXCEPT !.waited = @ + 1]
    /\ UNCHANGED <<setupVars, stackVars, tcp_pc, client_socket, rx_buffer, net,
                   s_audio_stream_buffer, audio>>

\* The wait of xStreamBufferReceive ends.
A2dDataCbReturn ==
    /\ cb.pc = "waiting"
    /\ ReceiveReturns(s_audio_stream_buffer, cb.waited, ReceiveTicks)
    /\ CbFinish(cb.len, cb.data, cb.waited)
    /\ UNCHANGED <<setupVars, stackVars, tcp_pc, client_socket, rx_buffer, net>>


(***************************************************************************)
(* tcp_server_task, and the peers on the network.                          *)
(* tcp_pc is "none" before the task exists, "created" before it has set up *)
(* its listening socket, "accept" inside accept(), "recv" inside recv(),   *)
(* "send" inside xStreamBufferSend and "exited" after vTaskDelete.         *)
(* Ghost fields of net: received and pushed count the bytes recv() has     *)
(* returned and the bytes written to the stream buffer, runs lists, in order *)
(* of arrival, each connection bytes came from with the number of the last *)
(* byte it sent so far, open counts the accepted sockets not yet           *)
(* closed and last_recv is the last value recv() returned on the current   *)
(* socket.                                                                 *)
(***************************************************************************)
SendTicks_NoWait == pdMS_TO_TICKS(0)
SendTicks == portMAX_DELAY
KeepReceiving_OnZero(len) == len >= 0
KeepReceiving(len) == len > 0

\* The bytes a recv() that returns len puts into rx_buffer.
Chunk(len) == [i \in 1..len |-> net.received + i]

\* The record of where the bytes came from, after `len` more from `socket`.
Received(runs, socket, len) ==
    IF runs # <<>> /\ runs[Len(runs)].socket = socket
      THEN [runs EXCEPT ![Len(runs)].upto = @ + len]
      ELSE Append(runs, [socket |-> socket,
                         upto |-> len + (IF runs = <<>> THEN 0 ELSE runs[Len(runs)].upto)])

\* A push restarts the record of the pulls made since the last push.
AfterPush(a, sb) == [a EXCEPT !.reads = <<>>, !.level = BytesAvailable(sb)]

\* socket(), bind(), listen(): none of the results is checked.
TcpStart ==
    /\ tcp_pc = "created"
    /\ \E ok \in BOOLEAN : net' = [net EXCEPT !.listening = ok]
    /\ tcp_pc' = "accept"
    /\ UNCHANGED <<setupVars, stackVars, client_socket, rx_buffer,
                   s_audio_stream_buffer, cb, audio>>

\* A peer connects to port 8080 and is queued by the transport.
PeerConnects ==
    /\ net.listening
    /\ net.peers < MaxPeers
    /\ net' = [net EXCEPT !.peers = @ + 1, !.backlog = @ + 1]
    /\ UNCHANGED <<setupVars, stackVars, tcp_pc, client_socket, rx_buffer,
                   s_audio_stream_buffer, cb, audio>>

\* accept() returns a socket: connections are numbered in the order accepted.
TcpAccept ==
    /\ tcp_pc = "accept"
    /\ net.listening
    /\ net.backlog > 0
    /\ client_socket' = net.peers - net.backlog + 1
    /\ net' = [net EXCEPT !.backlog = @ - 1, !.open = @ + 1, !.last_recv = 1]
    /\ tcp_pc' = "recv"
    /\ UNCHANGED <<setupVars, stackVars, rx_buffer, s_audio_stream_buffer, cb, audio>>

\* accept() returns -1: break, close(listen_sock), vTaskDelete(NULL).
TcpAcceptFails ==
    /\ tcp_pc = "accept"
    /\ client_socket' = -1
    /\ net' = [net EXCEPT !.listening = FALSE, !.last_recv = 1]
    /\ tcp_pc' = "exited"
    /\ UNCHANGED <<setupVars, stackVars, rx_buffer, s_audio_stream_buffer, cb, audio>>

\* One pass of the do-while loop: recv(), and the push when len > 0.
TcpRecv(lens) ==
    /\ tcp_pc = "recv"
    /\ \E len \in lens :
          /\ len <= net.supply
          /\ IF KeepReceiving(len)
               THEN /\ net' = [net EXCEPT
                          !.supply = @ - len,
                          !.received = @ + len,
                          !.runs = Received(@, client_socket, len),
                          !.last_recv = IF len > 0 THEN 1 ELSE len,
                          !.pushed = IF SendReturns(s_audio_stream_buffer, len, 0, SendTicks)
                                       THEN @ + Min(len, SpacesAvailable(s_audio_stream_buffer))
                                       ELSE @]
                    /\ IF SendReturns(s_audio_stream_buffer, len, 0, SendTicks)
                         THEN /\ s_audio_stream_buffer' =
                                     xStreamBufferSend(s_audio_stream_buffer, Chunk(len))
                              /\ audio' = AfterPush(audio, s_audio_stream_buffer')
                              /\ UNCHANGED <<tcp_pc, rx_buffer>>
                         ELSE /\ rx_buffer' = Chunk(len)
                              /\ tcp_pc' = "send"
                              /\ UNCHANGED <<s_audio_stream_buffer, audio>>
                    /\ UNCHANGED client_socket
               ELSE /\ net' = [net EXCEPT !.open = @ - 1, !.last_recv = len]
                    /\ client_socket' = -1
                    /\ tcp_pc' = "accept"
                    /\ UNCHANGED <<rx_buffer, s_audio_stream_buffer, audio>>
    /\ UNCHANGED <<setupVars, stackVars, cb>>

\* xStreamBufferSend returns from its wait for space.
TcpSend ==
    /\ tcp_pc = "send"
    /\ SendReturns(s_audio_stream_buffer, Len(rx_buffer), 0, SendTicks)
    /\ s_audio_stream_buffer' = xStreamBufferSend(s_audio_stream_buffer, rx_buffer)
    /\ net' = [net EXCEPT
          !.pushed = @ + Min(Len(rx_buffer), SpacesAvailable(s_audio_stream_buffer))]
    /\ audio' = AfterPush(audio, s_audio_stream_buffer')
    /\ rx_buffer' = <<>>
    /\ tcp_pc' = "recv"
    /\ UNCHANGED <<setupVars, stackVars, client_socket, cb>>

(***************************************************************************)
(* Specifications                                                          *)
(***************************************************************************)
Callbacks ==
    \/ BtDiscoveryStarted \/ BtDiscoveryResult \/ BtDiscoveryStopped
    \/ A2dConnected \/ A2dDisconnected
    \/ WifiScanFinished \/ WifiScanDone \/ WifiGotIp \/ WifiDisconnected

\* Spec: the whole program. One sink and one network are in range, the operator
\* answers "1" or "x", the sink connects once and stays, the network link drops
\* at most once, and the relay is scaled: BufferBytes for STREAM_BUFFER_SIZE,
\* RxBytes for sizeof(rx_buffer).
ShortLines == { <<"1">>, <<"x">> }
ShortTerminators == { <<LF>> }

Init ==
    InitWith([in_range |-> {1}, networks |-> {1}, link_events |-> 1, disconnects |-> 1,
              size |-> BufferBytes, supply |-> MaxBytes, log |-> 0])

Relay ==
    \/ TcpStart \/ PeerConnects \/ TcpAccept \/ TcpAcceptFails
    \/ TcpRecv(-1..RxBytes) \/ TcpSend
    \/ A2dDataCbCall(-1..MaxLen) \/ Tick \/ A2dDataCbReturn

Next ==
    \/ setup_task
    \/ Callbacks
    \/ OperatorTypes(ShortLines, ShortTerminators)
    \/ Relay

Spec == Init /\ [][Next]_vars

\* SetupSpec: the setup state machine with its callbacks and the operator, over
\* every registry size up to one past the capacity and the whole vocabulary.
\* The relay's steps are left out: none of them writes a variable of the setup.
SetupInit0 ==
    InitWith([in_range |-> (0..MaxInRange) \cup {MAX_DISCOVERED_DEVICES + 1},
              networks |-> (0..MaxNetworks) \cup {MAX_DISCOVERED_DEVICES + 1},
              link_events |-> MaxLinkEvents, disconnects |-> MaxDisconnects,
              size |-> STREAM_BUFFER_SIZE, supply |-> 0, log |-> 0])

SetupNext ==
    \/ setup_task
    \/ Callbacks
    \/ OperatorTypes(Lines, Terminators)

SetupSpec == SetupInit0 /\ [][SetupNext]_vars


(***************************************************************************)
(* The sink registry (C1)                                                  *)
(***************************************************************************)
RegistryBounded ==
    /\ s_bt_device_count <= MAX_DISCOVERED_DEVICES
    /\ \A i, j \in 1..s_bt_device_count : i # j => s_bt_devices[i] # s_bt_devices[j]

RegistryChanges == <<s_bt_devices, s_bt_device_count>>' # <<s_bt_devices, s_bt_device_count>>

\* A step that changes the registry is the reset of APP_STATE_INIT, or it appends
\* one address that was not stored to a registry that was not full.
RegistryStep ==
    RegistryChanges =>
        \/ s_bt_device_count' = 0 /\ s_bt_devices' = s_bt_devices /\ SetupInit
        \/ /\ s_bt_device_count < MAX_DISCOVERED_DEVICES
           /\ s_bt_device_count' = s_bt_device_count + 1
           /\ \A i \in 1..s_bt_device_count :
                 /\ s_bt_devices'[i] = s_bt_devices[i]
                 /\ s_bt_devices'[s_bt_device_count + 1] # s_bt_devices[i]

\* C1: for every sequence of discovery results the registry holds at most
\* MAX_DISCOVERED_DEVICES entries, no two of them with the same address, and a
\* result that arrives when the registry is full, or whose address is stored
\* already, leaves the registry as it was. (The registry is empty at the start,
\* so it is enough to look at the steps that change it.)
C1_RegistryBoundedAndDeduplicated ==
    [][RegistryStep /\ (RegistryChanges => RegistryBounded')]_vars

\* The registry is full and one more device has been reported and dropped.
C1_Witness ==
    /\ s_bt_device_count = MAX_DISCOVERED_DEVICES
    /\ bt_stack.reported = MAX_DISCOVERED_DEVICES + 1


(***************************************************************************)
(* The selection states (C2)                                               *)
(***************************************************************************)
Unsigned(line) == IF line # <<>> /\ Head(line) \in {"+", "-"} THEN Tail(line) ELSE line
\* A line is numeric when it is a decimal number: an optional sign and digits.
IsNumeric(line) ==
    /\ Unsigned(line) # <<>>
    /\ \A i \in 1..Len(Unsigned(line)) : Unsigned(line)[i] \in Digits
OutsideRange(line, count) == atoi(line) < 1 \/ atoi(line) > count

SelectionStates == {"APP_STATE_BT_DEVICE_SELECTION", "APP_STATE_WIFI_NETWORK_SELECTION"}
SelectionCount ==
    IF s_app_state = "APP_STATE_BT_DEVICE_SELECTION" THEN s_bt_device_count
    ELSE s_wifi_ap_count
\* The step in which a selection state reads its line.
SelectionAnswered ==
    /\ s_app_state \in SelectionStates
    /\ setup_pc = "input"
    /\ setup_pc' = "delay"
AnswerLine == get_user_input(stdin, INPUT_BUFFER_LEN).buffer
Rejected ==
    /\ s_app_state' = s_app_state
    /\ cmds' = cmds
    /\ a2d_peer' = a2d_peer
    /\ s_wifi_config' = s_wifi_config
    /\ sta_config' = sta_config
    /\ console' = "Invalid choice. Please try again."

\* C2: in both selection states every input that is non-numeric, or whose value
\* lies outside [1, count], leaves the setup state unchanged, issues no connect
\* command, leaves the credentials alone and is answered by the invalid-choice
\* message, after which the prompt is printed again.
C2_InvalidSelectionRejected ==
    [][SelectionAnswered /\ (~IsNumeric(AnswerLine) \/ OutsideRange(AnswerLine, SelectionCount))
          => Rejected]_vars

(***************************************************************************)
(* The order of the setup states (C7)                                      *)
(***************************************************************************)
\* C7: s_app_state is written by setup_task alone; a step of it leaves the state
\* or moves it to the next state of the enumeration; an iteration that ends
\* without a change of state is an invalid answer in a selection state; in
\* APP_STATE_RUNNING the task deletes itself, and then nothing changes the state.
C7_StateAdvancesInOrder ==
    [][ /\ s_app_state' # s_app_state =>
              /\ setup_task
              /\ s_app_state # "APP_STATE_RUNNING"
              /\ StateIndex(s_app_state') = StateIndex(s_app_state) + 1
        /\ (setup_pc # "delay" /\ setup_pc' = "delay" /\ s_app_state' = s_app_state) =>
              /\ s_app_state \in SelectionStates
              /\ console' = "Invalid choice. Please try again."
        /\ (s_app_state = "APP_STATE_RUNNING" /\ setup_pc = "switch" /\ setup_pc' # setup_pc)
              => setup_pc' = "deleted"
        /\ setup_pc = "deleted" => setup_pc' = "deleted" ]_vars

\* Setup has gone through its nine states and the task has deleted itself.
C7_Witness ==
    /\ s_app_state = "APP_STATE_RUNNING"
    /\ setup_pc = "deleted"


(***************************************************************************)
(* The audio-pull adapter (C3, C4)                                         *)
(***************************************************************************)
\* A call with a valid buffer and len >= 0 has returned.
ValidCallReturned == cb.pc = "idle" /\ cb.valid /\ cb.len >= 0

\* C3: a call of a2d_data_cb with a valid buffer and len >= 0 reports exactly len
\* bytes: the first bytes_read of them are the bytes taken from the stream
\* buffer, bytes_read <= len, and the bytes after them are all zero.
C3_PullReportsRequestedLength ==
    ValidCallReturned =>
        /\ cb.ret = cb.len
        /\ Len(cb.data) = cb.len
        /\ cb.bytes_read \in 0..cb.len
        /\ \A i \in 1..cb.len :
              IF i <= cb.bytes_read
                THEN cb.data[i] = audio.handed - cb.bytes_read + i
                ELSE cb.data[i] = 0

\* A call for two bytes found one byte: one byte of audio, one of silence.
C3_Witness ==
    /\ ValidCallReturned
    /\ cb.len = 2
    /\ cb.bytes_read = 1

\* The scheduling the wait relies on: ticks pass, and the task that runs the
\* callback runs when its wait is over.
FairSpec == Spec /\ WF_vars(Tick) /\ WF_vars(A2dDataCbReturn)

\* C4: every call of a2d_data_cb returns: a call that waits on the stream buffer
\* waits for at most pdMS_TO_TICKS(20) ticks and then completes, whatever the
\* ingestion task does, also when it does not exist yet.
C4_PullNeverBlocksForever ==
    /\ [](cb.pc = "waiting" => cb.waited <= pdMS_TO_TICKS(RECEIVE_TIMEOUT_MS))
    /\ (cb.pc = "waiting") ~> (cb.pc = "idle")

\* A call has waited out its timeout and returned before the ingestion task
\* was created.
C4_Witness ==
    /\ ValidCallReturned
    /\ cb.len > 0
    /\ cb.bytes_read = 0
    /\ cb.waited = pdMS_TO_TICKS(RECEIVE_TIMEOUT_MS)
    /\ tcp_pc = "none"

(***************************************************************************)
(* Ordering and backpressure (C5, C6)                                      *)
(***************************************************************************)
\* The bytes labelled from + 1 .. to, in order.
Labels(from, to) == [i \in 1..(to - from) |-> from + i]

\* C5: the bytes handed to the consumer are, in order, the first bytes received
\* from the network: the stream buffer holds the bytes that follow the last byte
\* handed over, in receive order, the last pull handed over the bytes that
\* followed the ones handed over before it, and a byte of a later connection is
\* never received before a byte of an earlier one.
C5_DeliveredInReceiveOrder ==
    /\ audio.handed <= net.pushed
    /\ net.pushed <= net.received
    /\ s_audio_stream_buffer.bytes = Labels(audio.handed, net.pushed)
    /\ cb.pc = "idle" =>
          SubSeq(cb.data, 1, cb.bytes_read) = Labels(audio.handed - cb.bytes_read, audio.handed)
    /\ net.runs # <<>> => net.runs[Len(net.runs)].upto = net.received
    /\ \A i, j \in 1..Len(net.runs) :
          i < j => net.runs[i].socket < net.runs[j].socket /\ net.runs[i].upto < net.runs[j].upto

\* Bytes of two connections have been received, and a pull has handed over a
\* byte of the second one.
C5_Witness ==
    /\ cb.pc = "idle"
    /\ cb.bytes_read > 0
    /\ audio.handed > 0
    /\ Len(net.runs) = 2
    /\ net.runs[2].socket = 2
    /\ audio.handed > net.runs[1].upto

\* C6: the stream buffer never holds more than its capacity; a chunk that does
\* not fit is held back whole, with the task inside xStreamBufferSend, until
\* there is room for all of it; every byte received has been written to the
\* buffer or is in the chunk held back.
C6_Backpressure ==
    /\ BytesAvailable(s_audio_stream_buffer) <= s_audio_stream_buffer.size
    /\ tcp_pc = "send" =>
          /\ rx_buffer = Labels(net.pushed, net.received)
          /\ rx_buffer # <<>>
    /\ tcp_pc # "send" => net.pushed = net.received
    /\ s_audio_stream_buffer.bytes = Labels(audio.handed, net.pushed)

\* A chunk is held back because the buffer has no room for it.
C6_Witness ==
    /\ tcp_pc = "send"
    /\ SpacesAvailable(s_audio_stream_buffer) < Len(rx_buffer)
    /\ BytesAvailable(s_audio_stream_buffer) > 0

(***************************************************************************)
(* The ingestion loop (C8, C9)                                             *)
(***************************************************************************)
\* C8: at most one accepted socket is open; the task is inside recv or
\* xStreamBufferSend exactly while it holds that socket; and when recv has
\* returned zero or less, every byte received has been pushed, the socket is
\* closed and the task is in accept.
C8_OneConnectionAtATime ==
    /\ net.open \in {0, 1}
    /\ (client_socket # -1) <=> (tcp_pc \in {"recv", "send"})
    /\ (client_socket # -1) <=> (net.open = 1)
    /\ net.last_recv <= 0 =>
          /\ tcp_pc = "accept"
          /\ client_socket = -1
          /\ net.open = 0
          /\ net.pushed = net.received

\* A peer has sent bytes and closed; a second peer is waiting to be accepted.
C8_Witness ==
    /\ net.last_recv = 0
    /\ net.received > 0
    /\ tcp_pc = "accept"
    /\ net.backlog > 0

\* C9: the ingestion task is created once, on the step from
\* APP_STATE_WIFI_CONNECTING to APP_STATE_RUNNING, and from then on it is
\* accepting, receiving or pushing: nothing makes it terminate.
C9_IngestionRunsForever ==
    /\ net.spawned <= 1
    /\ (net.spawned = 1) <=> (s_app_state = "APP_STATE_RUNNING")
    /\ (tcp_pc # "none") <=> (net.spawned = 1)
    /\ tcp_pc \in {"none", "created", "accept", "recv", "send"}


(***************************************************************************)
(* Pulls with no push in between (C10)                                     *)
(***************************************************************************)
\* ScenarioSpec: the whole program with the buffer at its real capacity. The
\* peers send 4000 bytes, recv() returns 1000 of them at a time, or 0,
\* the A2DP stack asks for 1024 bytes at a time, and the last five pulls since
\* the last push are remembered. With 4000 bytes against 16384 no push waits
\* for room, so xStreamBufferSend's wait has no step here.
ScenarioInit ==
    InitWith([in_range |-> {1}, networks |-> {1}, link_events |-> 1, disconnects |-> 1,
              size |-> STREAM_BUFFER_SIZE, supply |-> 4000, log |-> 5])

ScenarioNext ==
    \/ setup_task
    \/ Callbacks
    \/ OperatorTypes({ <<"1">> }, { <<LF>> })
    \/ TcpStart \/ PeerConnects \/ TcpAccept \/ TcpAcceptFails
    \/ TcpRecv({0, 1000})
    \/ A2dDataCbCall({1024}) \/ Tick \/ A2dDataCbReturn

ScenarioSpec == ScenarioInit /\ [][ScenarioNext]_vars

\* The bytes taken by the first k pulls since the last push.
RECURSIVE Taken(_)
Taken(k) == IF k = 0 THEN 0 ELSE Taken(k - 1) + audio.reads[k].n

\* C10: with no push in between, a pull of len bytes on a buffer that holds k
\* bytes takes min(len, k) of them and leaves the rest, and on an empty buffer it
\* takes nothing, after the timeout; so after a push that leaves 4000 bytes, five
\* pulls of 1024 take 1024, 1024, 1024, 928 and 0 bytes.
C10_PullTakesWhatIsThere ==
    /\ \A i \in 1..Len(audio.reads) :
          LET k == audio.level - Taken(i - 1)
              r == audio.reads[i]
          IN  /\ r.n = Min(r.len, k)
              /\ (k = 0 /\ r.len > 0) => r.waited = pdMS_TO_TICKS(RECEIVE_TIMEOUT_MS)
    /\ Len(audio.reads) < audio.log =>
          BytesAvailable(s_audio_stream_buffer) = audio.level - Taken(Len(audio.reads))
    /\ (audio.level = 4000 /\ Len(audio.reads) = 5) =>
          [i \in 1..5 |-> audio.reads[i].n] = <<1024, 1024, 1024, 928, 0>>

\* Five pulls have followed the push that brought the buffer to 4000 bytes.
C10_Witness ==
    /\ audio.level = 4000
    /\ Len(audio.reads) = 5
    /\ audio.reads[5].n = 0
    /\ cb.pc = "idle"
    /\ cb.data = [i \in 1..1024 |-> 0]

(***************************************************************************)
(* Short reads (C11)                                                       *)
(***************************************************************************)
\* C11: a pull returns fewer bytes than it asked for only when its timeout has
\* elapsed: a call that has handed over fewer than len bytes has waited
\* pdMS_TO_TICKS(20) ticks for them.
C11_ShortReadOnlyAfterTimeout ==
    (ValidCallReturned /\ cb.bytes_read < cb.len) =>
        cb.waited >= pdMS_TO_TICKS(RECEIVE_TIMEOUT_MS)

(***************************************************************************)
(* Repeated pulls (C12)                                                    *)
(***************************************************************************)
\* The step in which a call for more than zero bytes takes its bytes from the
\* stream buffer and returns; no push is part of that step.
PullTakes ==
    /\ A2dDataCbReturn \/ A2dDataCbCall(1..MaxLen)
    /\ cb'.pc = "idle" /\ cb'.valid /\ cb'.len > 0

\* C12 as stated: after every pull of more than zero bytes the buffer holds
\* strictly fewer bytes than before it, not fewer than none and not more than
\* its capacity.
C12_PullStrictlyDecreases ==
    [][PullTakes =>
          /\ BytesAvailable(s_audio_stream_buffer') < BytesAvailable(s_audio_stream_buffer)
          /\ BytesAvailable(s_audio_stream_buffer') >= 0
          /\ BytesAvailable(s_audio_stream_buffer') <= s_audio_stream_buffer'.size]_vars

\* C12, amended: a pull of len > 0 bytes leaves k - min(len, k) of the k bytes it
\* found: strictly fewer when the buffer was not empty, and none, as before, when
\* it was empty; the content is never negative and never above the capacity.
C12_PullDecreasesUnlessEmpty ==
    [][PullTakes =>
          LET k == BytesAvailable(s_audio_stream_buffer)
              after == BytesAvailable(s_audio_stream_buffer')
          IN  /\ after = k - Min(cb'.len, k)
              /\ k > 0 => after < k
              /\ k = 0 => after = 0 /\ cb'.bytes_read = 0
              /\ after >= 0
              /\ after <= s_audio_stream_buffer'.size]_vars

\* A pull of one byte has taken one of two buffered bytes, and the other is
\* still there.
C12_Witness ==
    /\ ValidCallReturned
    /\ cb.len = 1
    /\ cb.bytes_read = 1
    /\ BytesAvailable(s_audio_stream_buffer) = 1
    /\ tcp_pc = "recv"
    /\ net.pushed = audio.handed + 1

(***************************************************************************)
(* The discovery window (C13)                                              *)
(***************************************************************************)
\* The steps of setup_task that read s_bt_device_count and s_bt_devices: the
\* listing after the wait of APP_STATE_BT_DISCOVERY and the range check and
\* connect of APP_STATE_BT_DEVICE_SELECTION.
RegistryRead == SetupBtDiscovery \/ SetupBtDeviceSelection

\* The registry holds, in the order reported, the devices the inquiry found.
RegistryComplete ==
    /\ s_bt_device_count = Min(bt_stack.reported, MAX_DISCOVERED_DEVICES)
    /\ \A i \in 1..s_bt_device_count : s_bt_devices[i] = i

Issues(command) == Len(cmds') > Len(cmds) /\ cmds'[Len(cmds')] = command
Moves(from, to) == s_app_state = from /\ s_app_state' = to

\* The four transitions behind a signal: each is taken only when the stack has
\* raised the event. (bt_stack.inquiry, bt_stack.link, wifi_stack.scan and
\* wifi_stack.got_ip are the stacks' own record of the events they raised.)
SignalGated ==
    /\ Moves("APP_STATE_BT_DISCOVERY", "APP_STATE_BT_DEVICE_SELECTION") =>
          bt_stack.inquiry = "stopped"
    /\ Issues("esp_wifi_scan_start") => bt_stack.link = "connected"
    /\ (Moves("APP_STATE_WIFI_SCANNING", "APP_STATE_WIFI_NETWORK_SELECTION")
          \/ <<s_wifi_aps, s_wifi_ap_count>>' # <<s_wifi_aps, s_wifi_ap_count>>) =>
          wifi_stack.scan = "notified"
    /\ (tcp_pc = "none" /\ tcp_pc' # "none") => wifi_stack.got_ip

\* The connect command follows a valid selection: a number in [1, count], and
\* the address given to the stack is the entry with that number.
ConnectAfterValidSelection ==
    Issues("esp_a2d_source_connect") =>
        /\ SelectionAnswered
        /\ IsNumeric(AnswerLine)
        /\ ~OutsideRange(AnswerLine, s_bt_device_count)
        /\ a2d_peer' = s_bt_devices[atoi(AnswerLine)]

\* C14: the registry is presented only after the discovery-stopped event, the
\* scan command is issued only after the sink-connected event, the network
\* registry is refreshed only after the scan-complete event, the ingestion task
\* is started only after the IP-acquired event, and the sink connect command is
\* issued only after a valid selection.
C14_TransitionsGated == [][SignalGated /\ ConnectAfterValidSelection]_vars

(***************************************************************************)
(* The credentials (C15)                                                   *)
(***************************************************************************)
\* What get_user_input hands to APP_STATE_WIFI_PASSWORD_INPUT.
EnteredSecret == get_user_input(stdin, PASSWORD_LEN).buffer

\* C15: a valid network selection k stores the name of the k-th entry of the
\* network registry with an empty secret (1 after a scan that found Home and
\* Office stores Home); APP_STATE_WIFI_PASSWORD_INPUT then stores the secret it
\* has read beside that name and submits the two together; nothing else writes
\* the credentials; and every connect command sent to the Wi-Fi stack, the
\* reconnects of the event handler included, comes after that submission, with
\* the submitted name and secret being the stored ones.
C15_CredentialsSubmittedAsUnit ==
    [][ /\ Moves("APP_STATE_WIFI_NETWORK_SELECTION", "APP_STATE_WIFI_PASSWORD_INPUT") =>
              /\ ValidChoice(atoi(AnswerLine), s_wifi_ap_count)
              /\ s_wifi_config' = [ssid |-> s_wifi_aps[atoi(AnswerLine)].ssid,
                                   password |-> <<>>]
              /\ (AnswerLine = <<"1">> /\ s_wifi_ap_count = 2
                    /\ s_wifi_aps[1].ssid = "Home" /\ s_wifi_aps[2].ssid = "Office")
                    => s_wifi_config'.ssid = "Home"
              /\ ~Issues("esp_wifi_connect")
        /\ Moves("APP_STATE_WIFI_PASSWORD_INPUT", "APP_STATE_WIFI_CONNECTING") =>
              /\ s_wifi_config' = [ssid |-> s_wifi_config.ssid, password |-> EnteredSecret]
              /\ sta_config' = s_wifi_config'
              /\ cmds' = cmds \o <<"esp_wifi_set_config", "esp_wifi_connect">>
        /\ s_wifi_config' # s_wifi_config =>
              \/ Moves("APP_STATE_WIFI_NETWORK_SELECTION", "APP_STATE_WIFI_PASSWORD_INPUT")
              \/ Moves("APP_STATE_WIFI_PASSWORD_INPUT", "APP_STATE_WIFI_CONNECTING")
        /\ sta_config' # sta_config =>
              Moves("APP_STATE_WIFI_PASSWORD_INPUT", "APP_STATE_WIFI_CONNECTING")
        /\ Issues("esp_wifi_connect") =>
              /\ \E i \in 1..(Len(cmds') - 1) : cmds'[i] = "esp_wifi_set_config"
              /\ sta_config' = s_wifi_config'
              /\ sta_config'.ssid # ""
              /\ s_app_state' \in {"APP_STATE_WIFI_CONNECTING", "APP_STATE_RUNNING"} ]_vars

\* Home was chosen out of Home and Office, its secret was submitted, and the
\* event handler has reconnected after a disconnect.
C15_Witness ==
    /\ s_wifi_ap_count = 2
    /\ sta_config.ssid = "Home"
    /\ sta_config = s_wifi_config
    /\ Len(cmds) > 1
    /\ cmds[Len(cmds)] = "esp_wifi_connect"
    /\ cmds[Len(cmds) - 1] = "esp_wifi_connect"

(***************************************************************************)
(* Reconnecting (C16)                                                      *)
(***************************************************************************)
\* ReconnectSpec: the whole program with a network link that drops three times.
\* The peers send a single byte, so that no push has to wait for room.
ReconnectInit ==
    InitWith([in_range |-> {1}, networks |-> {1}, link_events |-> 1, disconnects |-> 3,
              size |-> BufferBytes, supply |-> 1, log |-> 0])

ReconnectNext ==
    \/ setup_task
    \/ Callbacks
    \/ OperatorTypes({ <<"1">> }, { <<LF>> })
    \/ TcpStart \/ PeerConnects \/ TcpAccept \/ TcpAcceptFails
    \/ TcpRecv(-1..1)
    \/ A2dDataCbCall(-1..1) \/ Tick \/ A2dDataCbReturn

ReconnectSpec == ReconnectInit /\ [][ReconnectNext]_vars

\* The Wi-Fi stack raises WIFI_EVENT_STA_DISCONNECTED in this step.
DisconnectEvent == wifi_stack'.disconnects < wifi_stack.disconnects

\* C16: every disconnect event, the first like any later one, makes the handler
\* send exactly one connect command; the attempt uses the configuration that
\* setup submitted, which is the stored one; and the event changes neither the
\* setup state, nor the stored credentials, nor the ingestion task, nor the
\* stream buffer.
C16_DisconnectReconnectsOnce ==
    [][DisconnectEvent =>
          /\ cmds' = Append(cmds, "esp_wifi_connect")
          /\ wifi_stack'.sta = "connecting"
          /\ sta_config' = sta_config
          /\ sta_config = s_wifi_config
          /\ UNCHANGED <<s_app_state, setup_pc, s_wifi_config, s_app_event_group>>
          /\ UNCHANGED <<tcp_pc, client_socket, rx_buffer, net>>
          /\ UNCHANGED <<s_audio_stream_buffer, cb, audio>> ]_vars

\* Setup is over and the relay holds audio while the station, disconnected for
\* the third time, is connecting again on the handler's third command.
C16_Witness ==
    /\ s_app_state = "APP_STATE_RUNNING"
    /\ setup_pc = "deleted"
    /\ wifi_stack.got_ip
    /\ wifi_stack.sta = "connecting"
    /\ wifi_stack.disconnects = 0
    /\ \A i \in 0..3 : cmds[Len(cmds) - i] = "esp_wifi_connect"
    /\ tcp_pc = "recv"
    /\ BytesAvailable(s_audio_stream_buffer) > 0

(***************************************************************************)
(* Prompts and lines (C17)                                                 *)
(***************************************************************************)
\* get_user_input returns to one of the three states that prompt.
PromptReturns == setup_pc = "input" /\ setup_pc' = "delay"
\* The size of the buffer the prompt reads into.
PromptLen ==
    IF s_app_state = "APP_STATE_WIFI_PASSWORD_INPUT" THEN PASSWORD_LEN ELSE INPUT_BUFFER_LEN
Truncated(line, n) == SubSeq(line, 1, Min(Len(line), n))

\* C17: a prompt returns only when a line has been submitted for it, and what
\* it returns is that line, cut to len - 1 characters: the i-th prompt answers
\* the i-th line, whether the line ends in \n, \r or \r\n; the secret stored by
\* APP_STATE_WIFI_PASSWORD_INPUT is the line typed at its prompt.
C17_PromptReturnsSubmittedLine ==
    [][PromptReturns =>
          /\ typed # <<>>
          /\ get_user_input(stdin, PromptLen).buffer = Truncated(Head(typed), PromptLen - 1)]_vars

(***************************************************************************)
(* Latched signals (C18)                                                   *)
(***************************************************************************)
Raised(bit) == bit \notin s_app_event_group /\ bit \in s_app_event_group'
Cleared(bit) == bit \in s_app_event_group /\ bit \notin s_app_event_group'
\* setup_task leaves the wait of the state.
WaitEnds(state) == At(state, "wait") /\ setup_pc' # "wait"

\* C18: a completion signal raised by the stack stays set until setup_task's
\* wait for it, wherever setup_task is when it is raised, so the wait returns at
\* once; BT_DISCOVERY_DONE_BIT and WIFI_SCAN_DONE_BIT are cleared by the wait
\* that consumes them and by nothing else, and are set again only by a new
\* event; WIFI_CONNECTED_BIT is never cleared.
C18_SignalsLatched ==
    [][ /\ (bt_stack'.inquiry = "stopped" /\ s_app_state' = "APP_STATE_BT_DISCOVERY") =>
              /\ BT_DISCOVERY_DONE_BIT \in s_app_event_group'
              /\ WaitBitsReturns(s_app_event_group', BT_DISCOVERY_DONE_BIT, portMAX_DELAY)
        /\ (wifi_stack'.scan = "notified"
              /\ s_app_state' \in {"APP_STATE_BT_CONNECTING", "APP_STATE_WIFI_SCANNING"}) =>
              /\ WIFI_SCAN_DONE_BIT \in s_app_event_group'
              /\ WaitBitsReturns(s_app_event_group', WIFI_SCAN_DONE_BIT, portMAX_DELAY)
        /\ (wifi_stack'.got_ip /\ s_app_state' = "APP_STATE_WIFI_CONNECTING") =>
              /\ WIFI_CONNECTED_BIT \in s_app_event_group'
              /\ WaitBitsReturns(s_app_event_group', WIFI_CONNECTED_BIT, portMAX_DELAY)
        /\ Cleared(BT_DISCOVERY_DONE_BIT) <=> WaitEnds("APP_STATE_BT_DISCOVERY")
        /\ Cleared(WIFI_SCAN_DONE_BIT) <=> WaitEnds("APP_STATE_WIFI_SCANNING")
        /\ ~Cleared(WIFI_CONNECTED_BIT)
        /\ Raised(BT_DISCOVERY_DONE_BIT) => bt_stack.inquiry = "active" /\ bt_stack'.inquiry = "stopped"
        /\ Raised(WIFI_SCAN_DONE_BIT) => wifi_stack.scan = "done" /\ wifi_stack'.scan = "notified"
        /\ Raised(WIFI_CONNECTED_BIT) => ~wifi_stack.got_ip /\ wifi_stack'.got_ip ]_vars

\* The address arrived during the delay that follows the password, before
\* setup_task waits for it; the two auto-clear signals have been consumed.
C18_Witness ==
    /\ At("APP_STATE_WIFI_CONNECTING", "delay")
    /\ s_app_event_group = {BT_CONNECTED_BIT, WIFI_CONNECTED_BIT}
    /\ wifi_stack.got_ip

(***************************************************************************)
(* Empty registries (C19)                                                  *)
(***************************************************************************)
\* A selection state whose registry is empty.
NothingToSelect == s_app_state \in SelectionStates /\ SelectionCount = 0

\* C19: in a selection state with an empty registry no step changes the state,
\* whatever the operator types: every answer is rejected, the registry stays
\* empty, no discovery, scan or connect command is issued, and the ingestion
\* task is not created. The state is therefore kept for ever, and
\* APP_STATE_RUNNING is never reached.
C19_EmptyRegistryIsFinal ==
    [][NothingToSelect =>
          /\ NothingToSelect'
          /\ s_app_state' = s_app_state
          /\ PromptReturns => Rejected
          /\ ~Issues("esp_bt_gap_start_discovery")
          /\ ~Issues("esp_wifi_scan_start")
          /\ ~Issues("esp_a2d_source_connect")
          /\ ~Issues("esp_wifi_connect")
          /\ tcp_pc' = "none"]_vars

\* The scan found no network, and an answer has been rejected.
C19_Witness ==
    /\ s_app_state = "APP_STATE_WIFI_NETWORK_SELECTION"
    /\ s_wifi_ap_count = 0
    /\ wifi_stack.networks = 0
    /\ console = "Invalid choice. Please try again."
    /\ setup_pc = "switch"

(***************************************************************************)
(* Waiting for an address (C20)                                            *)
(***************************************************************************)
\* C20: APP_STATE_WIFI_CONNECTING is left only for APP_STATE_RUNNING and only
\* after the stack has raised IP_EVENT_STA_GOT_IP. As long as no address has
\* been granted, APP_STATE_RUNNING is not reached and the ingestion task does not
\* exist, and a disconnect event does nothing but send one more connect command
\* for the same credentials: the state, the stored and the submitted
\* configuration stay as they are.
C20_ConnectingWaitsForAddress ==
    [][ /\ s_app_state = "APP_STATE_WIFI_CONNECTING" =>
              s_app_state' \in {"APP_STATE_WIFI_CONNECTING", "APP_STATE_RUNNING"}
        /\ Moves("APP_STATE_WIFI_CONNECTING", "APP_STATE_RUNNING") => wifi_stack.got_ip
        /\ ~wifi_stack'.got_ip =>
              /\ s_app_state' # "APP_STATE_RUNNING"
              /\ tcp_pc' = "none"
              /\ net'.spawned = 0
        /\ (DisconnectEvent /\ ~wifi_stack.got_ip) =>
              /\ s_app_state = "APP_STATE_WIFI_CONNECTING"
              /\ s_app_state' = s_app_state
              /\ cmds' = Append(cmds, "esp_wifi_connect")
              /\ wifi_stack'.sta = "connecting"
              /\ UNCHANGED <<s_wifi_config, sta_config>>
              /\ sta_config = s_wifi_config ]_vars

\* Three attempts have failed and no address was granted: setup_task is still
\* waiting in APP_STATE_WIFI_CONNECTING and there is no ingestion task.
C20_Witness ==
    /\ At("APP_STATE_WIFI_CONNECTING", "wait")
    /\ ~wifi_stack.got_ip
    /\ wifi_stack.disconnects = 0
    /\ wifi_stack.sta = "connecting"
    /\ \A i \in 0..3 : cmds[Len(cmds) - i] = "esp_wifi_connect"
    /\ tcp_pc = "none"

=============================================================================
